---- MODULE Spec2Model ----
(***************************************************************************)
(* Model of the Digital Representation Lab (NumberTextLab.jsx, App.jsx).   *)
(*                                                                         *)
(* JavaScript numbers.  The component works on integers up to 2^32 and on  *)
(* intermediate values up to 2^33, which do not fit the model checker's    *)
(* integers.  A finite integral JS number n is therefore represented by    *)
(* the record [kind |-> "fin", hi |-> h, lo |-> l] with n = h * 2^16 + l   *)
(* and 0 <= l < 2^16 (h carries the sign).  NaN and the infinities are     *)
(* records of their own kind.  The representation is canonical, so record  *)
(* equality is numeric equality (+0 and -0 are one value, as for ===).     *)
(*                                                                         *)
(* JavaScript strings are sequences of one-character strings; Unicode text *)
(* is a sequence of scalar values.                                         *)
(***************************************************************************)
EXTENDS Integers, Sequences, FiniteSets, TLC

Limb == 2 ^ 16

\* ---------- JS number representation ----------
Num(h, l) == [kind |-> "fin", hi |-> h + (l \div Limb), lo |-> l % Limb]
NaN == [kind |-> "nan", hi |-> 0, lo |-> 0]
PosInf == [kind |-> "inf", hi |-> 1, lo |-> 0]
NegInf == [kind |-> "inf", hi |-> -1, lo |-> 0]
Zero == Num(0, 0)

IsFinite(a) == a.kind = "fin"
IsNaN(a) == a.kind = "nan"

Add(a, b) == Num(a.hi + b.hi, a.lo + b.lo)
Sub(a, b) == Num(a.hi - b.hi, a.lo - b.lo)
Neg(a) == Num(-a.hi, -a.lo)
Lt(a, b) == a.hi < b.hi \/ (a.hi = b.hi /\ a.lo < b.lo)
Le(a, b) == a = b \/ Lt(a, b)
MulAdd(a, k, d) == Num(a.hi * k, a.lo * k + d)
DivSmall(a, k) == Num(a.hi \div k, (((a.hi % k) * Limb) + a.lo) \div k)
RemSmall(a, k) == (((a.hi % k) * Limb) + a.lo) % k

\* 2 ** k
Pow2(k) == IF k < 16 THEN Num(0, 2 ^ k) ELSE Num(2 ^ (k - 16), 0)

\* mathematical a mod 2^k (non-negative)
ModPow2(a, k) ==
  IF k >= 16 THEN Num(a.hi % (2 ^ (k - 16)), a.lo) ELSE Num(0, a.lo % (2 ^ k))

\* floor(a / 2^k) for a >= 0
ShrPow2(a, k) ==
  IF k >= 16 THEN Num(0, a.hi \div (2 ^ (k - 16)))
  ELSE Num(a.hi \div (2 ^ k), ((a.hi % (2 ^ k)) * (2 ^ (16 - k))) + (a.lo \div (2 ^ k)))

\* JS remainder a % 2^k: truncated division, the sign of the dividend
JsRemPow2(a, k) == IF Lt(a, Zero) THEN Neg(ModPow2(Neg(a), k)) ELSE ModPow2(a, k)

\* ToUint32 / ToInt32 of a finite integral number
ToUint32(a) == ModPow2(a, 32)
ToInt32(a) ==
  LET u == ModPow2(a, 32) IN IF Le(Pow2(31), u) THEN Sub(u, Pow2(32)) ELSE u

\* ---------- strings ----------
DigitChars == <<"0", "1", "2", "3", "4", "5", "6", "7", "8", "9",
                "A", "B", "C", "D", "E", "F">>
LowerDigitChars == <<"0", "1", "2", "3", "4", "5", "6", "7", "8", "9",
                     "a", "b", "c", "d", "e", "f">>
WhiteSpace == {" "}

IsDigitOf(c, base) ==
  \E i \in 1..base : DigitChars[i] = c \/ LowerDigitChars[i] = c
DigitVal(c) ==
  (CHOOSE i \in 1..16 : DigitChars[i] = c \/ LowerDigitChars[i] = c) - 1

RECURSIVE TrimStart(_)
TrimStart(s) ==
  IF s # <<>> /\ Head(s) \in WhiteSpace THEN TrimStart(Tail(s)) ELSE s

RECURSIVE TrimEnd(_)
TrimEnd(s) ==
  IF s # <<>> /\ s[Len(s)] \in WhiteSpace
  THEN TrimEnd(SubSeq(s, 1, Len(s) - 1)) ELSE s

Trim(s) == TrimEnd(TrimStart(s))

RECURSIVE Reverse(_)
Reverse(s) == IF s = <<>> THEN <<>> ELSE Append(Reverse(Tail(s)), Head(s))

\* ---------- helpers (NumberTextLab.jsx) ----------
clamp(n, min, max) ==
  LET lower == IF Lt(min, n) THEN n ELSE min
  IN IF Lt(max, lower) THEN max ELSE lower

\* (s + "").padStart(len, "0")
padLeft(s, len) == [i \in 1..(len - Len(s)) |-> "0"] \o s

RECURSIVE GroupChunks(_, _)
GroupChunks(s, n) ==
  IF Len(s) < n THEN s
  ELSE SubSeq(s, 1, n) \o <<" ">> \o GroupChunks(SubSeq(s, n + 1, Len(s)), n)

groupEvery(s, n) == Trim(GroupChunks(s, n))

\* Number.prototype.toString(radix) of a non-negative integer
RECURSIVE DigitsOf(_, _)
DigitsOf(a, base) ==
  IF a = Zero THEN <<>>
  ELSE Append(DigitsOf(DivSmall(a, base), base), LowerDigitChars[RemSmall(a, base) + 1])

NumToString(a, base) ==
  IF a = Zero THEN <<"0">>
  ELSE IF Lt(a, Zero) THEN <<"-">> \o DigitsOf(Neg(a), base)
  ELSE DigitsOf(a, base)

ToUpperCase(s) ==
  [i \in 1..Len(s) |->
     IF \E j \in 11..16 : LowerDigitChars[j] = s[i]
     THEN DigitChars[CHOOSE j \in 11..16 : LowerDigitChars[j] = s[i]]
     ELSE s[i]]

\* toUnsigned without the second % (max + 1) of the negative branch
toUnsigned_singleRemainder(n, bits) ==
  LET max == Sub(Pow2(bits), Num(0, 1))
  IN IF ~IsFinite(n) THEN Zero
     ELSE IF Lt(n, Zero)
          THEN Add(JsRemPow2(n, bits), Add(max, Num(0, 1)))
          ELSE clamp(n, Zero, max)

toUnsigned(n, bits) ==
  LET max == Sub(Pow2(bits), Num(0, 1))
      \* max + 1 = 2 ** bits, so the two % (max + 1) are remainders by 2^bits
  IN IF ~IsFinite(n) THEN Zero
     ELSE IF Lt(n, Zero)
          THEN JsRemPow2(Add(JsRemPow2(n, bits), Add(max, Num(0, 1))), bits)
          ELSE clamp(n, Zero, max)

\* unsignedToSigned comparing with > instead of >=
unsignedToSigned_strict(u, bits) ==
  LET max == Pow2(bits)
  IN IF Lt(Pow2(bits - 1), u) THEN Sub(u, max) ELSE u

unsignedToSigned(u, bits) ==
  LET max == Pow2(bits)
  IN IF Le(Pow2(bits - 1), u) THEN Sub(u, max) ELSE u

\* 32-bit bitwise operators
RECURSIVE XorNat(_, _)
XorNat(a, b) ==
  IF a = 0 /\ b = 0 THEN 0
  ELSE ((a + b) % 2) + (2 * XorNat(a \div 2, b \div 2))

RECURSIVE AndNat(_, _)
AndNat(a, b) ==
  IF a = 0 \/ b = 0 THEN 0
  ELSE ((a % 2) * (b % 2)) + (2 * AndNat(a \div 2, b \div 2))

\* a ^ b : both operands through ToInt32, the result a signed 32-bit integer
BitXor(a, b) ==
  LET x == ToUint32(a)
      y == ToUint32(b)
  IN ToInt32([kind |-> "fin", hi |-> XorNat(x.hi, y.hi), lo |-> XorNat(x.lo, y.lo)])

\* a & b
BitAnd(a, b) ==
  LET x == ToUint32(a)
      y == ToUint32(b)
  IN ToInt32([kind |-> "fin", hi |-> AndNat(x.hi, y.hi), lo |-> AndNat(x.lo, y.lo)])

\* 1 << k : the shift count is taken modulo 32, the result is signed
ShiftLeftOne(k) == ToInt32(Pow2(k % 32))

\* a >>> k : ToUint32 of the operand, zero-filling shift
ShiftRightUnsigned(a, k) == ShrPow2(ToUint32(a), k % 32)

toHex(u, bits) == padLeft(ToUpperCase(NumToString(u, 16)), (bits + 3) \div 4)
toBin(u, bits) == padLeft(NumToString(u, 2), bits)

\* ---------- parsing ----------
\* the longest prefix of s made of digits of the base
DigitPrefix(s, base) ==
  LET others == {i \in 1..Len(s) : ~IsDigitOf(s[i], base)}
  IN IF others = {} THEN s
     ELSE SubSeq(s, 1, (CHOOSE i \in others : \A j \in others : i <= j) - 1)

\* the integer a digit string denotes, taken a few digits at a time
RECURSIVE SmallDigitsValue(_, _)
SmallDigitsValue(s, base) ==
  IF s = <<>> THEN 0
  ELSE (SmallDigitsValue(SubSeq(s, 1, Len(s) - 1), base) * base) + DigitVal(s[Len(s)])

ChunkLen(base) == IF base = 2 THEN 8 ELSE 3

RECURSIVE DigitsValue(_, _)
DigitsValue(s, base) ==
  LET n == ChunkLen(base) IN
  IF Len(s) <= n THEN Num(0, SmallDigitsValue(s, base))
  ELSE MulAdd(DigitsValue(SubSeq(s, 1, Len(s) - n), base), base ^ n,
              SmallDigitsValue(SubSeq(s, Len(s) - n + 1, Len(s)), base))

HasPrefix(s, c) == Len(s) >= 2 /\ s[1] = "0" /\ s[2] \in c

\* parseInt(string, radix) for radix 2, 10, 16 (ECMA-262 19.2.5): leading
\* white space and a sign are skipped, radix 16 skips one 0x, the longest
\* prefix of digits is the value, what follows it is ignored.
parseInt(str, radix) ==
  LET s0 == TrimStart(str)
      neg == s0 # <<>> /\ Head(s0) = "-"
      s1 == IF s0 # <<>> /\ Head(s0) \in {"-", "+"} THEN Tail(s0) ELSE s0
      s2 == IF radix = 16 /\ HasPrefix(s1, {"x", "X"})
            THEN SubSeq(s1, 3, Len(s1)) ELSE s1
      z == DigitPrefix(s2, radix)
      v == DigitsValue(z, radix)
  IN IF z = <<>> THEN NaN ELSE IF neg THEN Neg(v) ELSE v

\* Number(string) (ECMA-262 7.1.4.1.1) on the strings of the model's
\* alphabet: white space is trimmed, the empty string is 0, the whole rest
\* must be a signed decimal integer or an unsigned 0x / 0b / 0o literal.
AllDigits(s, base) == s # <<>> /\ \A i \in 1..Len(s) : IsDigitOf(s[i], base)

JsNumber(str) ==
  LET s == Trim(str)
      signed == s # <<>> /\ Head(s) \in {"-", "+"}
      body == IF signed THEN Tail(s) ELSE s
      rest == SubSeq(s, 3, Len(s))
  IN IF s = <<>> THEN Zero
     ELSE IF HasPrefix(s, {"x", "X"})
          THEN (IF AllDigits(rest, 16) THEN DigitsValue(rest, 16) ELSE NaN)
     ELSE IF HasPrefix(s, {"b", "B"})
          THEN (IF AllDigits(rest, 2) THEN DigitsValue(rest, 2) ELSE NaN)
     ELSE IF HasPrefix(s, {"o", "O"})
          THEN (IF AllDigits(rest, 8) THEN DigitsValue(rest, 8) ELSE NaN)
     ELSE IF AllDigits(body, 10)
          THEN (IF Head(s) = "-" THEN Neg(DigitsValue(body, 10))
                ELSE DigitsValue(body, 10))
     ELSE NaN

parseFromBase(str, base) ==
  IF str = <<>> THEN NaN
  ELSE LET cleaned == Trim(str)
           n == parseInt(cleaned, base)
       IN IF IsNaN(n) THEN NaN ELSE n

\* str.replace(/\s+/g, "")
StripWhiteSpace(s) == SelectSeq(s, LAMBDA c : c \notin WhiteSpace)

\* ---------- UTF-8 (TextEncoder, TextDecoder) ----------
\* Text is a sequence of Unicode scalar values, bytes are 0..255.
ReplacementChar == 65533
ByteOrderMark == 65279

\* TextEncoder.encode: the UTF-8 encoder of the Encoding Standard
EncodeScalar(cp) ==
  IF cp <= 127 THEN <<cp>>
  ELSE IF cp <= 2047 THEN <<192 + (cp \div 64), 128 + (cp % 64)>>
  ELSE IF cp <= 65535
       THEN <<224 + (cp \div 4096), 128 + ((cp \div 64) % 64), 128 + (cp % 64)>>
  ELSE <<240 + (cp \div 262144), 128 + ((cp \div 4096) % 64),
         128 + ((cp \div 64) % 64), 128 + (cp % 64)>>

RECURSIVE TextEncoderEncode(_)
TextEncoderEncode(text) ==
  IF text = <<>> THEN <<>> ELSE EncodeScalar(Head(text)) \o TextEncoderEncode(Tail(text))

utf8Bytes(str) == TextEncoderEncode(str)

\* the UTF-8 decoder of the Encoding Standard; err records that some byte
\* sequence was replaced by U+FFFD
DecoderStart == [cp |-> 0, seen |-> 0, needed |-> 0, lower |-> 128, upper |-> 191]

RECURSIVE Utf8DecoderRun(_, _, _, _)
Utf8DecoderRun(bs, st, out, err) ==
  IF bs = <<>>
  THEN IF st.needed # 0
       THEN [out |-> Append(out, ReplacementChar), err |-> TRUE]
       ELSE [out |-> out, err |-> err]
  ELSE LET b == Head(bs) IN
    IF st.needed = 0
    THEN IF b <= 127 THEN Utf8DecoderRun(Tail(bs), DecoderStart, Append(out, b), err)
         ELSE IF b >= 194 /\ b <= 223
              THEN Utf8DecoderRun(Tail(bs),
                     [DecoderStart EXCEPT !.needed = 1, !.cp = b % 32], out, err)
         ELSE IF b >= 224 /\ b <= 239
              THEN Utf8DecoderRun(Tail(bs),
                     [DecoderStart EXCEPT !.needed = 2, !.cp = b % 16,
                        !.lower = IF b = 224 THEN 160 ELSE 128,
                        !.upper = IF b = 237 THEN 159 ELSE 191], out, err)
         ELSE IF b >= 240 /\ b <= 244
              THEN Utf8DecoderRun(Tail(bs),
                     [DecoderStart EXCEPT !.needed = 3, !.cp = b % 8,
                        !.lower = IF b = 240 THEN 144 ELSE 128,
                        !.upper = IF b = 244 THEN 143 ELSE 191], out, err)
         ELSE Utf8DecoderRun(Tail(bs), DecoderStart, Append(out, ReplacementChar), TRUE)
    ELSE IF b < st.lower \/ b > st.upper
         \* the byte is put back and read again as a lead byte
         THEN Utf8DecoderRun(bs, DecoderStart, Append(out, ReplacementChar), TRUE)
         ELSE LET cp == (st.cp * 64) + (b % 64) IN
              IF st.seen + 1 = st.needed
              THEN Utf8DecoderRun(Tail(bs), DecoderStart, Append(out, cp), err)
              ELSE Utf8DecoderRun(Tail(bs),
                     [st EXCEPT !.cp = cp, !.seen = st.seen + 1,
                        !.lower = 128, !.upper = 191], out, err)

\* new TextDecoder(label, {fatal, ignoreBOM}).decode(bytes): in fatal mode a
\* malformed sequence throws, otherwise it decodes to U+FFFD; unless
\* ignoreBOM is set a leading U+FEFF is dropped from the output.
TextDecoderDecode(bytes, fatal, ignoreBOM) ==
  LET r == Utf8DecoderRun(bytes, DecoderStart, <<>>, FALSE)
  IN IF fatal /\ r.err THEN [threw |-> TRUE, text |-> <<>>]
     ELSE [threw |-> FALSE,
           text |-> IF ~ignoreBOM /\ r.out # <<>> /\ Head(r.out) = ByteOrderMark
                    THEN Tail(r.out) ELSE r.out]

\* ---------- DecoderTool ----------
\* the input without .replace(/0x/gi, " ")
ReplaceHexPrefix_keeps(s) == s

\* .replace(/0x/gi, " ")
RECURSIVE ReplaceHexPrefix(_)
ReplaceHexPrefix(s) ==
  IF s = <<>> THEN <<>>
  ELSE IF HasPrefix(s, {"x", "X"}) THEN <<" ">> \o ReplaceHexPrefix(SubSeq(s, 3, Len(s)))
  ELSE <<Head(s)>> \o ReplaceHexPrefix(Tail(s))

\* .replace(/[^0-9a-fA-F]/g, " ")
ReplaceNonHex(s) == [i \in 1..Len(s) |-> IF IsDigitOf(s[i], 16) THEN s[i] ELSE " "]

\* .trim().split(/\s+/).filter(Boolean)
RECURSIVE SplitWhiteSpace(_, _)
SplitWhiteSpace(s, cur) ==
  IF s = <<>> THEN (IF cur = <<>> THEN <<>> ELSE <<cur>>)
  ELSE IF Head(s) \in WhiteSpace
       THEN (IF cur = <<>> THEN <<>> ELSE <<cur>>) \o SplitWhiteSpace(Tail(s), <<>>)
       ELSE SplitWhiteSpace(Tail(s), Append(cur, Head(s)))

\* new Uint8Array(numbers): each element modulo 256
ToUint8(n) == IF IsFinite(n) THEN ModPow2(n, 8).lo ELSE 0

hexInputBytes(input) ==
  LET tokens == SplitWhiteSpace(Trim(ReplaceNonHex(ReplaceHexPrefix(input))), <<>>)
  IN [i \in 1..Len(tokens) |-> ToUint8(parseInt(tokens[i], 16))]

ErrorMessage == "Invalid UTF-8 or hex format"

\* the body of the effect: try { ... } catch { ... }
decodeResult(input) ==
  LET r == TextDecoderDecode(hexInputBytes(input), FALSE, FALSE)
  IN IF r.threw THEN [decoded |-> <<>>, error |-> ErrorMessage]
     ELSE [decoded |-> r.text, error |-> ""]

\* ---------- bounds and input sets ----------
MaxStrLen == 2
Alphabet == {"0", "1", "2", "F", "x", "-", " "}

RECURSIVE StringsUpTo(_)
StringsUpTo(n) ==
  IF n = 0 THEN {<<>>}
  ELSE LET shorter == StringsUpTo(n - 1)
       IN shorter \cup {Append(t, c) : t \in shorter, c \in Alphabet}

\* what the user can type into a text field
TypedStrings == StringsUpTo(MaxStrLen)

BitWidths == {8, 16, 32}

\* byte tokens typed into the decoder's textarea
MaxTokens == 3
DecoderTokens ==
  {<<"4", "8">>, <<"c", "3">>, <<"A", "9">>, <<"E", "2">>, <<"8", "2">>,
   <<"A", "C">>, <<"F", "F">>, <<"F", "E">>, <<"C", "0">>, <<"8", "0">>,
   <<"0", "x", "E", "F">>, <<"B", "B">>, <<"B", "F">>, <<"E", "D">>, <<"A", "0">>,
   <<"7">>, <<"0", "X", "a">>}

\* the example of the decoder's caption without its emoji: 48 65 6C 6C 6F
HelloInput ==
  <<"4", "8", " ", "6", "5", " ", "6", "C", " ", "6", "C", " ", "6", "F">>

\* sample scalar values of every encoded length, and texts made of them
MaxTextLen == 2
SampleScalars ==
  {72, 127, 128, 233, 2047, 2048, 8364, 55295, 57344, ByteOrderMark,
   ReplacementChar, 65535, 65536, 128075, 1114111}

RECURSIVE TextsUpTo(_)
TextsUpTo(n) ==
  IF n = 0 THEN {<<>>}
  ELSE LET shorter == TextsUpTo(n - 1)
       IN shorter \cup {Append(t, c) : t \in shorter, c \in SampleScalars}

\* positions a range input can report: integers of [min, max]
SliderStops(b) == {Zero, Pow2(b - 1), Sub(Pow2(b), Num(0, 1))}

\* bit buttons pressed: the most and the least significant one
ToggleIndices(b) == {0, b - 1}

\* Math.random() is a number r / 2^RandomBits of [0, 1); the samples are the
\* least one, the greatest one and one between
RandomBits == 32
RandomSamples == {Zero, Num(65 * 256, 0), Sub(Pow2(RandomBits), Num(0, 1))}

\* Math.floor(Math.random() * 2 ** bits) + 1
randomTarget_plusOne(r, b) == Add(ShrPow2(r, RandomBits - b), Num(0, 1))

\* Math.floor(Math.random() * 2 ** bits)
randomTarget(r, b) == ShrPow2(r, RandomBits - b)

\* values Math.floor(Math.random() * 2 ** bits) can take
RandomTargets(b) == {randomTarget(r, b) : r \in RandomSamples}

\* ---------- NumberTextLab state ----------
VARIABLES bits, unsignedValue, challenge, effectBits

\* a call of one of the pure helpers: its arguments, its result
VARIABLES call, ret, done

\* DecoderTool state; decodePending: useEffect(..., [hexInput]) has not yet
\* run for the hexInput of the last render
VARIABLES hexInput, decoded, error, decodePending

\* App state (its tab), NumberTextLab's inner tab and text; labInstance
\* numbers the NumberTextLab instances App has mounted so far
VARIABLES appTab, tab, text, labInstance

labVars == <<bits, unsignedValue, challenge, effectBits>>
fnVars == <<call, ret, done>>
decVars == <<hexInput, decoded, error, decodePending>>
appVars == <<appTab, tab, text, labInstance>>
vars == <<bits, unsignedValue, challenge, effectBits, call, ret, done,
          hexInput, decoded, error, decodePending,
          appTab, tab, text, labInstance>>

\* challenge is null or {target, bits}
NoChallenge == [set |-> FALSE, target |-> Zero, bits |-> 0]
Challenge(t, b) == [set |-> TRUE, target |-> t, bits |-> b]

\* useEffect(..., [bits]) has not yet run for the bits of the last render
NotMounted == 0
EffectPending == effectBits # bits
Settled == effectBits = bits

LabInit ==
  /\ bits = 8
  /\ unsignedValue = Num(0, 65)
  /\ challenge = NoChallenge
  /\ effectBits = NotMounted

NoCall == [fn |-> "none"]
FnIdle == call = NoCall /\ ret = Zero /\ done = FALSE

\* useState("48 65 6C 6C 6F 20 F0 9F 91 8B"), useState(""), useState("")
DefaultHexInput ==
  <<"4", "8", " ", "6", "5", " ", "6", "C", " ", "6", "C", " ", "6", "F", " ",
    "2", "0", " ", "F", "0", " ", "9", "F", " ", "9", "1", " ", "8", "B">>

DecInit ==
  /\ hexInput = DefaultHexInput
  /\ decoded = <<>>
  /\ error = ""
  /\ decodePending = TRUE

\* useState("Hello \U+1F44B"), as scalar values
DefaultText == <<72, 101, 108, 108, 111, 32, 128075>>

\* App shows its first NumberTextLab, which shows the number tab
AppInit ==
  /\ appTab = "numbers_and_text"
  /\ tab = "number"
  /\ text = DefaultText
  /\ labInstance = 1

\* the number section, the text section (with its DecoderTool) is rendered
NumberTabShown == appTab = "numbers_and_text" /\ tab = "number"
TextTabShown == appTab = "numbers_and_text" /\ tab = "text"

Init == LabInit /\ FnIdle /\ DecInit /\ AppInit

\* the text tab has just been opened on a new NumberTextLab
TextTabInit ==
  /\ LabInit /\ FnIdle /\ DecInit
  /\ appTab = "numbers_and_text" /\ tab = "text"
  /\ text = DefaultText /\ labInstance = 1

\* derived values of a render
maxVal == Sub(Pow2(bits), Num(0, 1))
signedValue == unsignedToSigned(unsignedValue, bits)
hexValue == toHex(unsignedValue, bits)
binValue == toBin(unsignedValue, bits)

RECURSIVE BytesFrom(_, _)
BytesFrom(val, i) ==
  IF i < 0 THEN <<>>
  ELSE <<BitAnd(ShiftRightUnsigned(val, i * 8), Num(0, 255)).lo>> \o BytesFrom(val, i - 1)

\* bytesBE with the loop counting up: least significant byte first
bytesBEOf_lsbFirst(u, b) ==
  LET val == ShiftRightUnsigned(u, 0)
      totalBytes == (b + 7) \div 8
  IN Reverse(BytesFrom(val, totalBytes - 1))

bytesBEOf(u, b) ==
  LET val == ShiftRightUnsigned(u, 0)
      totalBytes == (b + 7) \div 8
  IN BytesFrom(val, totalBytes - 1)

bytesBE == bytesBEOf(unsignedValue, bits)
bytesLE == Reverse(bytesBE)

\* challengeCorrect without the comparison of the widths
challengeCorrectOf_ignoresBits(c, u, b) == c.set /\ u = c.target

challengeCorrectOf(c, u, b) == c.set /\ u = c.target /\ b = c.bits
challengeCorrect == challengeCorrectOf(challenge, unsignedValue, bits)

\* the value the handlers pass to setUnsignedValue (the old one when they skip)
fromDecimal(str, b, cur) ==
  LET n == JsNumber(str) IN IF IsFinite(n) THEN toUnsigned(n, b) ELSE cur
fromHex(str, b, cur) ==
  LET n == parseFromBase(str, 16) IN IF IsFinite(n) THEN toUnsigned(n, b) ELSE cur
\* setFromBinary without str.replace(/\s+/g, "")
fromBinary_keepsBlanks(str, b, cur) ==
  LET n == parseFromBase(str, 2)
  IN IF IsFinite(n) THEN toUnsigned(n, b) ELSE cur

fromBinary(str, b, cur) ==
  LET n == parseFromBase(StripWhiteSpace(str), 2)
  IN IF IsFinite(n) THEN toUnsigned(n, b) ELSE cur
\* toggleBit storing next without toUnsigned
toggled_signed(i, b, cur) ==
  LET mask == ShiftLeftOne(b - 1 - i)
      next == BitXor(cur, mask)
  IN next

toggled(i, b, cur) ==
  LET mask == ShiftLeftOne(b - 1 - i)
      next == BitXor(cur, mask)
  IN toUnsigned(next, b)

\* ---------- NumberTextLab events ----------
\* React runs the passive effects of a render before it handles the next
\* event, so the handlers are enabled in settled states only.
setBits(b) ==
  /\ NumberTabShown /\ Settled
  /\ bits' = b
  /\ UNCHANGED <<unsignedValue, challenge, effectBits, fnVars, decVars, appVars>>

setFromDecimal(str) ==
  /\ NumberTabShown /\ Settled
  /\ unsignedValue' = fromDecimal(str, bits, unsignedValue)
  /\ UNCHANGED <<bits, challenge, effectBits, fnVars, decVars, appVars>>

setFromHex(str) ==
  /\ NumberTabShown /\ Settled
  /\ unsignedValue' = fromHex(str, bits, unsignedValue)
  /\ UNCHANGED <<bits, challenge, effectBits, fnVars, decVars, appVars>>

setFromBinary(str) ==
  /\ NumberTabShown /\ Settled
  /\ unsignedValue' = fromBinary(str, bits, unsignedValue)
  /\ UNCHANGED <<bits, challenge, effectBits, fnVars, decVars, appVars>>

moveSlider(v) ==
  /\ NumberTabShown /\ Settled
  /\ unsignedValue' = v
  /\ UNCHANGED <<bits, challenge, effectBits, fnVars, decVars, appVars>>

toggleBit(i) ==
  /\ NumberTabShown /\ Settled
  /\ unsignedValue' = toggled(i, bits, unsignedValue)
  /\ UNCHANGED <<bits, challenge, effectBits, fnVars, decVars, appVars>>

makeChallenge(t) ==
  /\ NumberTabShown /\ Settled
  /\ challenge' = Challenge(t, bits)
  /\ UNCHANGED <<bits, unsignedValue, effectBits, fnVars, decVars, appVars>>

\* the effect without setChallenge(null)
resetChallengeEffect_keepsChallenge ==
  /\ appTab = "numbers_and_text" /\ EffectPending
  /\ effectBits' = bits
  /\ UNCHANGED <<bits, unsignedValue, challenge, fnVars, decVars, appVars>>

\* useEffect(() => setChallenge(null), [bits])
resetChallengeEffect ==
  /\ appTab = "numbers_and_text" /\ EffectPending
  /\ challenge' = NoChallenge
  /\ effectBits' = bits
  /\ UNCHANGED <<bits, unsignedValue, fnVars, decVars, appVars>>

Next ==
  \/ \E b \in BitWidths : setBits(b)
  \/ \E str \in TypedStrings : setFromDecimal(str)
  \/ \E str \in TypedStrings : setFromHex(str)
  \/ \E str \in TypedStrings : setFromBinary(str)
  \/ \E v \in SliderStops(bits) : moveSlider(v)
  \/ \E i \in ToggleIndices(bits) : toggleBit(i)
  \/ \E t \in RandomTargets(bits) : makeChallenge(t)
  \/ resetChallengeEffect

Spec == Init /\ [][Next]_vars

\* ---------- DecoderTool events ----------
RECURSIVE CountBlanks(_)
CountBlanks(s) ==
  IF s = <<>> THEN 0
  ELSE (IF Head(s) \in WhiteSpace THEN 1 ELSE 0) + CountBlanks(Tail(s))

\* edits of the textarea: clear it, restore the default, paste the example,
\* type one more token
EditedInputs(input) ==
  {<<>>, DefaultHexInput, HelloInput}
    \cup (IF input = <<>> THEN DecoderTokens
          ELSE IF CountBlanks(input) + 1 < MaxTokens
               THEN {input \o <<" ">> \o t : t \in DecoderTokens}
               ELSE {})

\* onChange={(e) => setHexInput(e.target.value)}
setHexInput(v) ==
  /\ TextTabShown /\ ~decodePending
  /\ hexInput' = v
  /\ decodePending' = (v # hexInput)
  /\ UNCHANGED <<decoded, error, labVars, fnVars, appVars>>

decodeEffect ==
  /\ TextTabShown /\ decodePending
  /\ decoded' = decodeResult(hexInput).decoded
  /\ error' = decodeResult(hexInput).error
  /\ decodePending' = FALSE
  /\ UNCHANGED <<hexInput, labVars, fnVars, appVars>>

DecNext ==
  \/ \E v \in EditedInputs(hexInput) : setHexInput(v)
  \/ decodeEffect

DecSpec == TextTabInit /\ [][DecNext]_vars

\* ---------- App events ----------
MaxLabInstances == 2
AppTabs == {"numbers_and_text", "graphics"}
LabTabs == {"number", "text"}

\* texts typed into the textarea: cleared, the default, two letters
TypedTexts == {<<>>, DefaultText, <<72, 233>>}

\* no passive effect of a rendered component is pending
AppSettled ==
  appTab = "numbers_and_text" => (Settled /\ (tab = "text" => ~decodePending))

\* a NumberTextLab that took over the state of the instance before it
mountNumberTextLab_keepsState ==
  /\ labInstance' = labInstance + 1
  /\ UNCHANGED <<tab, bits, unsignedValue, challenge, effectBits, text>>

\* a new NumberTextLab instance: every useState gets its initial value and
\* its effect has not run
mountNumberTextLab ==
  /\ labInstance' = labInstance + 1
  /\ tab' = "number"
  /\ bits' = 8
  /\ unsignedValue' = Num(0, 65)
  /\ challenge' = NoChallenge
  /\ effectBits' = NotMounted
  /\ text' = DefaultText

\* a new DecoderTool instance
mountDecoderTool ==
  /\ hexInput' = DefaultHexInput
  /\ decoded' = <<>>
  /\ error' = ""
  /\ decodePending' = TRUE

\* App: onClick={() => setTab(...)}. {tab === "numbers_and_text" &&
\* <NumberTextLab />} unmounts the lab on leaving (its state is dropped and
\* no longer read) and mounts a new one on coming back.
App_setTab(t) ==
  /\ AppSettled
  /\ (appTab = "numbers_and_text" /\ t = "graphics") => labInstance < MaxLabInstances
  /\ appTab' = t
  /\ IF appTab = "graphics" /\ t = "numbers_and_text"
       THEN mountNumberTextLab
       ELSE UNCHANGED <<labVars, tab, text, labInstance>>
  /\ UNCHANGED <<fnVars, decVars>>

\* NumberTextLab: onClick={() => setTab(t.id)}; the text section holds the
\* DecoderTool, mounted when the section is
setTab(t) ==
  /\ appTab = "numbers_and_text" /\ AppSettled
  /\ tab' = t
  /\ IF tab = "number" /\ t = "text"
       THEN mountDecoderTool
       ELSE UNCHANGED decVars
  /\ UNCHANGED <<labVars, fnVars, appTab, text, labInstance>>

\* onChange={(e) => setText(e.target.value)}
setText(s) ==
  /\ TextTabShown /\ AppSettled
  /\ text' = s
  /\ UNCHANGED <<labVars, fnVars, decVars, appTab, tab, labInstance>>

AppNext ==
  \/ \E t \in AppTabs : App_setTab(t)
  \/ \E t \in LabTabs : setTab(t)
  \/ \E s \in TypedTexts : setText(s)
  \/ \E b \in BitWidths : setBits(b)
  \/ \E v \in SliderStops(bits) : moveSlider(v)
  \/ \E i \in ToggleIndices(bits) : toggleBit(i)
  \/ \E t \in RandomTargets(bits) : makeChallenge(t)
  \/ resetChallengeEffect
  \/ decodeEffect

AppSpec == Init /\ [][AppNext]_vars

\* ---------- calls of the pure helpers ----------
One == Num(0, 1)

\* integers around the powers of two the three widths turn on, both signs
EdgeNums ==
  UNION {{Sub(Pow2(k), One), Pow2(k), Add(Pow2(k), One),
          Neg(Sub(Pow2(k), One)), Neg(Pow2(k)), Neg(Add(Pow2(k), One))}
         : k \in {0, 1, 7, 8, 15, 16, 31, 32}}
    \cup {Num(0, 200), Num(0, 65000), Num(0, 300), Num(1, 4464), Num(-1, 65236)}

NonFinite == {NaN, PosInf, NegInf}

UnsignedRange(b) == {v \in EdgeNums : Le(Zero, v) /\ Lt(v, Pow2(b))}

ToUnsignedCalls ==
  {[fn |-> "toUnsigned", n |-> n, bits |-> b] : n \in EdgeNums \cup NonFinite, b \in BitWidths}
UnsignedToSignedCalls ==
  UNION {{[fn |-> "unsignedToSigned", u |-> u, bits |-> b] : u \in UnsignedRange(b)}
         : b \in BitWidths}
\* the field shows v; cur is the value held when the shown string is fed back
RoundTripCalls ==
  UNION {{[fn |-> "roundTrip", base |-> base, v |-> v, bits |-> b,
           cur |-> IF v = Zero THEN One ELSE Zero]
          : v \in UnsignedRange(b), base \in {10, 16, 2}} : b \in BitWidths}

\* every bit button of the panel, Array.from({ length: bits })
ToggleBitCalls ==
  UNION {{[fn |-> "toggleBit", v |-> v, bits |-> b, i |-> i]
          : v \in UnsignedRange(b), i \in 0..(b - 1)} : b \in BitWidths}

Utf8RoundTripCalls == {[fn |-> "utf8RoundTrip", s |-> s] : s \in TextsUpTo(MaxTextLen)}

FnInit ==
  /\ LabInit
  /\ DecInit
  /\ AppInit
  /\ call \in ToUnsignedCalls \cup UnsignedToSignedCalls \cup RoundTripCalls
              \cup Utf8RoundTripCalls \cup ToggleBitCalls
  /\ ret = Zero
  /\ done = FALSE

applyToUnsigned ==
  /\ ~done /\ call.fn = "toUnsigned"
  /\ ret' = toUnsigned(call.n, call.bits)
  /\ done' = TRUE
  /\ UNCHANGED <<call, labVars, decVars, appVars>>

applyUnsignedToSigned ==
  /\ ~done /\ call.fn = "unsignedToSigned"
  /\ ret' = unsignedToSigned(call.u, call.bits)
  /\ done' = TRUE
  /\ UNCHANGED <<call, labVars, decVars, appVars>>

\* value={unsignedValue}, value={hexValue}, value={groupEvery(binValue, 4)}
shownDecimal(v) == NumToString(v, 10)
shownHex(v, b) == toHex(v, b)
shownBinary(v, b) == groupEvery(toBin(v, b), 4)

applyRoundTrip ==
  /\ ~done /\ call.fn = "roundTrip"
  /\ ret' = CASE call.base = 10 -> fromDecimal(shownDecimal(call.v), call.bits, call.cur)
              [] call.base = 16 -> fromHex(shownHex(call.v, call.bits), call.bits, call.cur)
              [] call.base = 2 -> fromBinary(shownBinary(call.v, call.bits), call.bits, call.cur)
  /\ done' = TRUE
  /\ UNCHANGED <<call, labVars, decVars, appVars>>

\* the decoding step of DecoderTool applied to utf8Bytes(s)
applyUtf8RoundTrip ==
  /\ ~done /\ call.fn = "utf8RoundTrip"
  /\ ret' = TextDecoderDecode(utf8Bytes(call.s), FALSE, FALSE).text
  /\ done' = TRUE
  /\ UNCHANGED <<call, labVars, decVars, appVars>>

applyToggleBit ==
  /\ ~done /\ call.fn = "toggleBit"
  /\ ret' = toggled(call.i, call.bits, call.v)
  /\ done' = TRUE
  /\ UNCHANGED <<call, labVars, decVars, appVars>>

FnNext ==
  \/ applyToggleBit
  \/ applyToUnsigned
  \/ applyUnsignedToSigned
  \/ applyRoundTrip
  \/ applyUtf8RoundTrip

FnSpec == FnInit /\ [][FnNext]_vars

\* ---------- properties ----------
InRange(u, b) == IsFinite(u) /\ Le(Zero, u) /\ Lt(u, Pow2(b))

\* C1: in every reachable state unsignedValue is an integer of
\* [0, 2^bits - 1] for the active bits (a narrower width re-wraps the value).
C1_ValueInRange == InRange(unsignedValue, bits)

\* C2: a bit-width change clears an outstanding challenge: a settled state
\* holds no challenge of another width, and from a render whose effect is
\* pending the only step is the effect, which sets challenge to null.
C2_ChallengeCleared ==
  /\ [](Settled /\ challenge.set => challenge.bits = bits)
  /\ [][EffectPending => (challenge' = NoChallenge /\ effectBits' = bits')]_vars

C2_Witness == EffectPending /\ challenge.set /\ challenge.bits # bits

\* a complete numeral of the field: decimal as Number reads it (signed
\* digits or a 0x literal), hex digits with an optional sign and 0x, binary
\* digits with an optional sign and grouping blanks
SignedDigits(s, base) ==
  AllDigits(IF s # <<>> /\ Head(s) \in {"-", "+"} THEN Tail(s) ELSE s, base)
CompleteNumeral(str, base) ==
  LET s == Trim(str)
  IN CASE base = 10 ->
            \/ SignedDigits(s, 10)
            \/ (HasPrefix(s, {"x", "X"}) /\ AllDigits(SubSeq(s, 3, Len(s)), 16))
       [] base = 16 ->
            LET u == IF s # <<>> /\ Head(s) \in {"-", "+"} THEN Tail(s) ELSE s
            IN \/ AllDigits(u, 16)
               \/ (HasPrefix(u, {"x", "X"}) /\ AllDigits(SubSeq(u, 3, Len(u)), 16))
       [] base = 2 -> SignedDigits(StripWhiteSpace(s), 2)

\* C3: text that is not a complete numeral of its field leaves
\* unsignedValue unchanged, in the decimal, the hex and the binary field.
C3_InvalidTextIgnored ==
  [][\A str \in TypedStrings :
       /\ (~CompleteNumeral(str, 10) /\ setFromDecimal(str)) => unsignedValue' = unsignedValue
       /\ (~CompleteNumeral(str, 16) /\ setFromHex(str)) => unsignedValue' = unsignedValue
       /\ (~CompleteNumeral(str, 2) /\ setFromBinary(str)) => unsignedValue' = unsignedValue]_vars

\* C5 as stated: toUnsigned(n, bits) is n mod 2^bits for every integer n,
\* 0 for non-finite input, and lies in [0, 2^bits - 1].
C5_WrapsEveryInteger ==
  (done /\ call.fn = "toUnsigned") =>
     /\ InRange(ret, call.bits)
     /\ IsFinite(call.n) => ret = ModPow2(call.n, call.bits)
     /\ ~IsFinite(call.n) => ret = Zero

\* C5 amended: toUnsigned(n, bits) is n mod 2^bits for negative n, n itself
\* for n in range, 2^bits - 1 (saturation) for n above the range, 0 for
\* non-finite input, and lies in [0, 2^bits - 1].
C5_WrapsNegativeClampsAbove ==
  (done /\ call.fn = "toUnsigned") =>
     /\ InRange(ret, call.bits)
     /\ (IsFinite(call.n) /\ Lt(call.n, Zero)) => ret = ModPow2(call.n, call.bits)
     /\ InRange(call.n, call.bits) => ret = call.n
     /\ (IsFinite(call.n) /\ Le(Pow2(call.bits), call.n)) => ret = Sub(Pow2(call.bits), One)
     /\ ~IsFinite(call.n) => ret = Zero

C5_Witness ==
  /\ done /\ call.fn = "toUnsigned" /\ call.bits = 8
  /\ call.n = Pow2(8)
  /\ ret = Num(0, 255)

\* C6: the challenge is shown correct exactly when a challenge exists, its
\* target is the value and its width is the active width; never in the
\* render between a width change and the effect that clears the challenge.
C6_CorrectIffMatch ==
  /\ challengeCorrect <=>
       (challenge # NoChallenge /\ unsignedValue = challenge.target /\ challenge.bits = bits)
  /\ EffectPending => ~challengeCorrect

C6_Witness ==
  EffectPending /\ challenge.set /\ unsignedValue = challenge.target /\ ~challengeCorrect

\* C7: unsignedToSigned(v, bits) is v - 2^bits from 2^(bits-1) on and v
\* below, lies in [-2^(bits-1), 2^(bits-1) - 1], and is non-negative exactly
\* when v < 2^(bits-1).
C7_SignedInterpretation ==
  (done /\ call.fn = "unsignedToSigned") =>
     LET half == Pow2(call.bits - 1)
     IN /\ Le(half, call.u) => Add(ret, Pow2(call.bits)) = call.u
        /\ Lt(call.u, half) => ret = call.u
        /\ Le(Neg(half), ret) /\ Lt(ret, half)
        /\ Le(Zero, ret) <=> Lt(call.u, half)

C7_Witness ==
  /\ done /\ call.fn = "unsignedToSigned" /\ call.bits = 8
  /\ call.u = Num(0, 200) /\ ret = Num(0, -56)

\* byte number j of u: floor(u / 256^j) mod 256
RECURSIVE ByteNumber(_, _)
ByteNumber(u, j) == IF j = 0 THEN RemSmall(u, 256) ELSE ByteNumber(DivSmall(u, 256), j - 1)

\* C8: bytesBE has ceil(bits/8) entries of 0..255, entry k the byte number
\* ceil(bits/8) - 1 - k of unsignedValue, and bytesLE is bytesBE reversed.
C8_ByteOrders ==
  LET n == IF bits = 8 THEN 1 ELSE IF bits = 16 THEN 2 ELSE 4
  IN /\ Len(bytesBE) = n
     /\ Len(bytesLE) = n
     /\ \A k \in 1..n :
          /\ bytesBE[k] \in 0..255
          /\ bytesBE[k] = ByteNumber(unsignedValue, n - k)
          /\ bytesLE[k] = bytesBE[n + 1 - k]

C8_Witness == bits = 16 /\ Settled /\ bytesBE = <<255, 254>> /\ bytesLE = <<254, 255>>

\* C9: feeding the shown decimal, hex or grouped binary string of an
\* in-range v back into its field yields v.
C9_RoundTrip == (done /\ call.fn = "roundTrip") => ret = call.v

C9_Witness ==
  /\ done /\ call.fn = "roundTrip" /\ call.base = 2 /\ call.bits = 32
  /\ call.v = Pow2(31) /\ ret = call.v

\* well-formed UTF-8 byte sequences (Unicode Standard, table 3-7)
Cont(b, lo, hi) == b >= lo /\ b <= hi
RECURSIVE WellFormedUtf8(_)
WellFormedUtf8(bs) ==
  \/ bs = <<>>
  \/ /\ Len(bs) >= 1 /\ bs[1] <= 127
     /\ WellFormedUtf8(SubSeq(bs, 2, Len(bs)))
  \/ /\ Len(bs) >= 2 /\ Cont(bs[1], 194, 223) /\ Cont(bs[2], 128, 191)
     /\ WellFormedUtf8(SubSeq(bs, 3, Len(bs)))
  \/ /\ Len(bs) >= 3 /\ Cont(bs[3], 128, 191)
     /\ \/ bs[1] = 224 /\ Cont(bs[2], 160, 191)
        \/ Cont(bs[1], 225, 236) /\ Cont(bs[2], 128, 191)
        \/ bs[1] = 237 /\ Cont(bs[2], 128, 159)
        \/ Cont(bs[1], 238, 239) /\ Cont(bs[2], 128, 191)
     /\ WellFormedUtf8(SubSeq(bs, 4, Len(bs)))
  \/ /\ Len(bs) >= 4 /\ Cont(bs[3], 128, 191) /\ Cont(bs[4], 128, 191)
     /\ \/ bs[1] = 240 /\ Cont(bs[2], 144, 191)
        \/ Cont(bs[1], 241, 243) /\ Cont(bs[2], 128, 191)
        \/ bs[1] = 244 /\ Cont(bs[2], 128, 143)
     /\ WellFormedUtf8(SubSeq(bs, 5, Len(bs)))

\* C4: when the input's bytes are not well-formed UTF-8 the tool ends in the
\* error state: the error message is shown and decoded is empty.
C4_MalformedIsError ==
  (~decodePending /\ ~WellFormedUtf8(hexInputBytes(hexInput))) =>
     (error = ErrorMessage /\ decoded = <<>>)

\* C10: decoding utf8Bytes(s) yields s for every text s of scalar values,
\* also one that begins with U+FEFF.
C10_Utf8RoundTrip == (done /\ call.fn = "utf8RoundTrip") => ret = call.s

\* a token of the decoder's input: one or two hex digits, 0x before them or not
TokenDigits(t) == IF HasPrefix(t, {"x", "X"}) THEN SubSeq(t, 3, Len(t)) ELSE t
ValidToken(t) ==
  /\ Len(TokenDigits(t)) \in {1, 2}
  /\ \A i \in 1..Len(TokenDigits(t)) : IsDigitOf(TokenDigits(t)[i], 16)
TokenValue(t) ==
  LET d == TokenDigits(t)
  IN IF Len(d) = 1 THEN DigitVal(d[1]) ELSE (16 * DigitVal(d[1])) + DigitVal(d[2])
Hello == <<72, 101, 108, 108, 111>>

\* C11: for input made of white-space separated tokens of one or two hex
\* digits, 0x before them or not, the bytes handed to the decoder are the
\* token values in input order; "48 65 6C 6C 6F" decodes to "Hello" with an
\* empty error.
C11_TokensAreBytes ==
  LET tokens == SplitWhiteSpace(hexInput, <<>>)
      bytes == hexInputBytes(hexInput)
  IN /\ (\A i \in 1..Len(tokens) : ValidToken(tokens[i])) =>
          /\ Len(bytes) = Len(tokens)
          /\ \A i \in 1..Len(tokens) : bytes[i] \in 0..255 /\ bytes[i] = TokenValue(tokens[i])
     /\ (~decodePending /\ hexInput = HelloInput) => (decoded = Hello /\ error = "")

C11_Witness ==
  /\ ~decodePending
  /\ hexInput = <<"7", " ", "0", "x", "E", "F", " ", "0", "X", "a">>
  /\ hexInputBytes(hexInput) = <<7, 239, 10>>

\* C12: a challenge's target is an integer of [0, 2^challenge.bits - 1], and
\* challenge.bits is the width that was active when the challenge was made.
C12_TargetInRange ==
  /\ [](challenge.set => (challenge.bits \in BitWidths
                          /\ InRange(challenge.target, challenge.bits)))
  /\ [][(challenge' # challenge /\ challenge'.set) => challenge'.bits = bits]_vars

C12_Witness ==
  challenge.set /\ challenge.bits = 32 /\ challenge.target = Sub(Pow2(32), One)

\* bit number j of a non-negative integer
BitOf(u, j) == RemSmall(ShrPow2(u, j), 2)

\* C13: toggleBit(i) on an in-range v flips bit number bits - 1 - i and no
\* other (v gains 2^(bits-1-i) when the bit was 0 and loses it when it was
\* 1), the result is in range, also at 32 bits, and toggling the same index
\* again restores v.
C13_ToggleFlipsOneBit ==
  (done /\ call.fn = "toggleBit") =>
     LET j == call.bits - 1 - call.i
     IN /\ InRange(ret, call.bits)
        /\ BitOf(call.v, j) = 0 => ret = Add(call.v, Pow2(j))
        /\ BitOf(call.v, j) = 1 => ret = Sub(call.v, Pow2(j))
        /\ toggled(call.i, call.bits, ret) = call.v

C13_Witness ==
  /\ done /\ call.fn = "toggleBit" /\ call.bits = 32 /\ call.i = 0
  /\ call.v = Sub(Pow2(31), One)
  /\ ret = Sub(Pow2(32), One)

\* the state of a NumberTextLab at construction
LabFresh ==
  /\ tab = "number"
  /\ bits = 8
  /\ unsignedValue = Num(0, 65)
  /\ challenge = NoChallenge
  /\ text = DefaultText

\* C14: coming back to numbers_and_text from graphics shows a NumberTextLab
\* in its initial state (inner tab 'number', bits 8, unsignedValue 65,
\* challenge null, text the default string) whatever was edited before;
\* switching the inner number/text tab leaves bits, unsignedValue, challenge
\* and text as they were.
C14_StateLostOnAppTabSwitch ==
  /\ [][(appTab = "graphics" /\ appTab' = "numbers_and_text") => LabFresh']_vars
  /\ [][(appTab = "numbers_and_text" /\ appTab' = appTab /\ tab' # tab)
          => UNCHANGED <<bits, unsignedValue, challenge, text>>]_vars

\* the second NumberTextLab, just mounted, while the DecoderTool of the
\* first one had been opened and had decoded its input
C14_Witness ==
  /\ labInstance = 2 /\ appTab = "numbers_and_text"
  /\ effectBits = NotMounted /\ LabFresh
  /\ ~decodePending
====
